---------------------------- MODULE Spec2Model ----------------------------
(***************************************************************************)
(* A model of autowheel (src/autowheel/autowheel.py): main() walks the     *)
(* packages of autowheel.yml and process() walks the releases PyPI lists   *)
(* for a package, works out which wheels are missing for the platform and  *)
(* drives cibuildwheel once per missing Python tag.                        *)
(*                                                                         *)
(* Python strings are modelled as sequences of one-character strings, so   *)
(* that substring tests, concatenation, ordering and version parsing are   *)
(* computed the way the code computes them.                                *)
(*                                                                         *)
(* What comes from outside is drawn when the program reads it: the next    *)
(* package of autowheel.yml, the next release PyPI lists and its files,    *)
(* the result of a download, of unpacking and of a build.  Both loops run  *)
(* for any number of packages and releases.  os.environ is inherited: the  *)
(* process starts with no CIBW_ variable or with one already set.          *)
(***************************************************************************)
EXTENDS Integers, Sequences, FiniteSets, TLC

(***************************************************************************)
(* Text                                                                    *)
(***************************************************************************)

\* Python's None.  Every other text is a sequence of one-character strings.
None == <<"None">>

\* The characters used by the model's texts, in code point order.
Ascii ==
    <<" ", "-", ".", "/", "0", "1", "2", "3", "4", "5", "6", "7", "8", "9",
      "=", "_", "a", "b", "c", "d", "e", "f", "g", "h", "i", "j", "k", "l",
      "m", "n", "o", "p", "q", "r", "s", "t", "u", "v", "w", "x", "y", "z">>

Ord(c) == CHOOSE i \in 1..Len(Ascii) : Ascii[i] = c

Digits == {"0", "1", "2", "3", "4", "5", "6", "7", "8", "9"}

DigitVal(c) == Ord(c) - Ord("0")

\* sub in s
Contains(sub, s) ==
    \E i \in 0..(Len(s) - Len(sub)) : SubSeq(s, i + 1, i + Len(sub)) = sub

\* a < b for two Python strings (code point order, a proper prefix is less).
RECURSIVE StrLess(_, _)
StrLess(a, b) ==
    IF b = <<>> THEN FALSE
    ELSE IF a = <<>> THEN TRUE
    ELSE IF Head(a) = Head(b) THEN StrLess(Tail(a), Tail(b))
    ELSE Ord(Head(a)) < Ord(Head(b))

\* bool(x) for an option that is None or a string.
Truthy(x) == x # None /\ x # <<>>

\* set(list)
ToSet(list) == {list[i] : i \in 1..Len(list)}

\* sorted(S) for a set of strings, ascending.
RECURSIVE Sorted(_)
Sorted(S) ==
    IF S = {} THEN <<>>
    ELSE LET m == CHOOSE x \in S : \A y \in S : y = x \/ StrLess(x, y)
         IN  <<m>> \o Sorted(S \ {m})

(***************************************************************************)
(* distutils.version.LooseVersion under Python 3.  The components of a     *)
(* version string are its maximal runs of digits, each converted to an     *)
(* integer, its maximal runs of lower case letters and the runs of other   *)
(* characters between them; dots separate and are dropped.  Two versions   *)
(* compare as the lists of their components, and comparing an integer      *)
(* with a string raises TypeError.  An empty version string is not parsed: *)
(* the object has no version and comparing it raises AttributeError.       *)
(***************************************************************************)

Lower ==
    {"a", "b", "c", "d", "e", "f", "g", "h", "i", "j", "k", "l", "m", "n",
     "o", "p", "q", "r", "s", "t", "u", "v", "w", "x", "y", "z"}

\* What a character is to component_re.
CharClass(c) ==
    IF c \in Digits THEN "digit"
    ELSE IF c \in Lower THEN "alpha"
    ELSE IF c = "." THEN "dot"
    ELSE "other"

RECURSIVE IntOf(_, _)
IntOf(run, n) ==
    IF run = <<>> THEN n ELSE IntOf(Tail(run), n * 10 + DigitVal(Head(run)))

\* One component: int(x) when x is a run of digits, x otherwise.
Component(run, class) ==
    IF class = "digit"
    THEN [type |-> "int", n |-> IntOf(run, 0), s |-> <<>>]
    ELSE [type |-> "str", n |-> 0, s |-> run]

\* The components of s, after the run cur of class class and the
\* components acc.
RECURSIVE ParseFrom(_, _, _, _)
ParseFrom(s, cur, class, acc) ==
    LET flushed == IF cur = <<>> THEN acc ELSE Append(acc, Component(cur, class))
    IN  IF s = <<>> THEN flushed
        ELSE IF CharClass(Head(s)) = "dot"
             THEN ParseFrom(Tail(s), <<>>, "dot", flushed)
             ELSE IF CharClass(Head(s)) = class
                  THEN ParseFrom(Tail(s), Append(cur, Head(s)), class, acc)
                  ELSE ParseFrom(Tail(s), <<Head(s)>>, CharClass(Head(s)), flushed)

\* LooseVersion(vstring): the object keeps the string it was built from,
\* and has a version only when the string is not empty.
LooseVersion(vstring) ==
    [vstring |-> vstring,
     parsed  |-> vstring # <<>>,
     version |-> ParseFrom(vstring, <<>>, "dot", <<>>)]

\* str(LooseVersion)
VersionStr(lv) == lv.vstring

\* The comparison of two lists of components: "lt", "eq", "gt", or
\* "TypeError" when the first components that differ are an integer and a
\* string.
RECURSIVE ListCmp(_, _)
ListCmp(a, b) ==
    IF a = <<>> /\ b = <<>> THEN "eq"
    ELSE IF a = <<>> THEN "lt"
    ELSE IF b = <<>> THEN "gt"
    ELSE IF Head(a) = Head(b) THEN ListCmp(Tail(a), Tail(b))
    ELSE IF Head(a).type # Head(b).type THEN "TypeError"
    ELSE IF Head(a).type = "int"
         THEN (IF Head(a).n < Head(b).n THEN "lt" ELSE "gt")
         ELSE (IF StrLess(Head(a).s, Head(b).s) THEN "lt" ELSE "gt")

\* LooseVersion._cmp
VersionCmp(x, y) ==
    IF ~x.parsed \/ ~y.parsed THEN "AttributeError"
    ELSE ListCmp(x.version, y.version)

VersionLess(x, y) == VersionCmp(x, y) = "lt"

VersionLessEq(x, y) == VersionCmp(x, y) \in {"lt", "eq"}

\* The exception a comparison of x and y raises, "None" when none.
CmpError(x, y) ==
    IF VersionCmp(x, y) \in {"TypeError", "AttributeError"}
    THEN VersionCmp(x, y) ELSE "None"

\* min(list): the first of the smallest elements.
RECURSIVE MinFrom(_, _)
MinFrom(list, best) ==
    IF list = <<>> THEN best
    ELSE MinFrom(Tail(list),
                 IF VersionLess(Head(list), best) THEN Head(list) ELSE best)

PyMin(list) == MinFrom(Tail(list), Head(list))

\* The exception min(list) raises, "None" when none: ValueError for an
\* empty list, else that of the first comparison that raises.
RECURSIVE MinErrorFrom(_, _)
MinErrorFrom(list, best) ==
    IF list = <<>> THEN "None"
    ELSE IF CmpError(Head(list), best) # "None" THEN CmpError(Head(list), best)
    ELSE MinErrorFrom(Tail(list),
                      IF VersionLess(Head(list), best) THEN Head(list) ELSE best)

MinError(list) ==
    IF list = <<>> THEN "ValueError" ELSE MinErrorFrom(Tail(list), Head(list))

\* max(list): the first of the greatest elements.
RECURSIVE MaxFrom(_, _)
MaxFrom(list, best) ==
    IF list = <<>> THEN best
    ELSE MaxFrom(Tail(list),
                 IF VersionLess(best, Head(list)) THEN Head(list) ELSE best)

PyMax(list) == MaxFrom(Tail(list), Head(list))

RECURSIVE MaxErrorFrom(_, _)
MaxErrorFrom(list, best) ==
    IF list = <<>> THEN "None"
    ELSE IF CmpError(Head(list), best) # "None" THEN CmpError(Head(list), best)
    ELSE MaxErrorFrom(Tail(list),
                      IF VersionLess(best, Head(list)) THEN Head(list) ELSE best)

MaxError(list) ==
    IF list = <<>> THEN "ValueError" ELSE MaxErrorFrom(Tail(list), Head(list))

\* [x for x in list if x <= bound]
RECURSIVE FilterLessEq(_, _)
FilterLessEq(list, bound) ==
    IF list = <<>> THEN <<>>
    ELSE (IF VersionLessEq(Head(list), bound) THEN <<Head(list)>> ELSE <<>>)
         \o FilterLessEq(Tail(list), bound)

\* The exception the list comprehension raises, "None" when none.
RECURSIVE FilterError(_, _)
FilterError(list, bound) ==
    IF list = <<>> THEN "None"
    ELSE IF CmpError(Head(list), bound) # "None" THEN CmpError(Head(list), bound)
    ELSE FilterError(Tail(list), bound)

(***************************************************************************)
(* A dict is a sequence of <<key, value>> pairs with distinct keys, in     *)
(* iteration order.                                                        *)
(***************************************************************************)

Lookup(d, k) == d[CHOOSE i \in 1..Len(d) : d[i][1] = k][2]

(***************************************************************************)
(* The texts of the model                                                  *)
(***************************************************************************)

\* 'cp27'
cp27 == <<"c", "p", "2", "7">>

\* 'cp34'
cp34 == <<"c", "p", "3", "4">>

\* 'cp35'
cp35 == <<"c", "p", "3", "5">>

\* 'cp36'
cp36 == <<"c", "p", "3", "6">>

\* 'cp37'
cp37 == <<"c", "p", "3", "7">>

\* 'macosx'
TagMacosx == <<"m", "a", "c", "o", "s", "x">>

\* 'win32'
TagWin32 == <<"w", "i", "n", "3", "2">>

\* 'win_amd64'
TagWinAmd64 == <<"w", "i", "n", "_", "a", "m", "d", "6", "4">>

\* 'manylinux1_i686'
TagLinux32 == <<"m", "a", "n", "y", "l", "i", "n", "u", "x", "1", "_", "i", "6", "8", "6">>

\* 'manylinux1_x86_64'
TagLinux64 == <<"m", "a", "n", "y", "l", "i", "n", "u", "x", "1", "_", "x", "8", "6", "_", "6", "4">>

\* '0.9'
V0_9 == <<"0", ".", "9">>

\* '0.10'
V0_10 == <<"0", ".", "1", "0">>

\* '0.11'
V0_11 == <<"0", ".", "1", "1">>

\* '1.0'
V1_0 == <<"1", ".", "0">>

\* '1.0rc1'
V1_0rc1 == <<"1", ".", "0", "r", "c", "1">>

\* '1.0.1'
V1_0_1 == <<"1", ".", "0", ".", "1">>

\* 'p-1.0-cp27-cp27m-macosx.whl'
FnW27mac == <<"p", "-", "1", ".", "0", "-", "c", "p", "2", "7", "-", "c", "p", "2", "7", "m", "-", "m", "a", "c", "o", "s", "x", ".", "w", "h", "l">>

\* 'p-1.0-cp35-cp35m-macosx.whl'
FnW35mac == <<"p", "-", "1", ".", "0", "-", "c", "p", "3", "5", "-", "c", "p", "3", "5", "m", "-", "m", "a", "c", "o", "s", "x", ".", "w", "h", "l">>

\* 'p-1.0-cp36-cp36m-macosx.whl'
FnW36mac == <<"p", "-", "1", ".", "0", "-", "c", "p", "3", "6", "-", "c", "p", "3", "6", "m", "-", "m", "a", "c", "o", "s", "x", ".", "w", "h", "l">>

\* 'p-1.0-cp27-cp27mu-manylinux1_x86_64.whl'
FnW27lin == <<"p", "-", "1", ".", "0", "-", "c", "p", "2", "7", "-", "c", "p", "2", "7", "m", "u", "-", "m", "a", "n", "y", "l", "i", "n", "u", "x", "1", "_", "x", "8", "6", "_", "6", "4", ".", "w", "h", "l">>

\* 'p-1.0-cp27.cp35-none-win_amd64.whl'
FnWuniWin == <<"p", "-", "1", ".", "0", "-", "c", "p", "2", "7", ".", "c", "p", "3", "5", "-", "n", "o", "n", "e", "-", "w", "i", "n", "_", "a", "m", "d", "6", "4", ".", "w", "h", "l">>

\* 'p-1.0.tar.gz'
FnSdTgz == <<"p", "-", "1", ".", "0", ".", "t", "a", "r", ".", "g", "z">>

\* 'p-1.0.zip'
FnSdZip == <<"p", "-", "1", ".", "0", ".", "z", "i", "p">>

\* 'p-cp36-macosx.tar.gz'
FnSdOdd == <<"p", "-", "c", "p", "3", "6", "-", "m", "a", "c", "o", "s", "x", ".", "t", "a", "r", ".", "g", "z">>

\* 'make'
CmdMake == <<"m", "a", "k", "e">>

\* 'pytest'
CmdPytest == <<"p", "y", "t", "e", "s", "t">>

\* 'mock'
ReqMock == <<"m", "o", "c", "k">>

\* '/out'
OutDir == <<"/", "o", "u", "t">>

\* '1.7'
Np1_7 == <<"1", ".", "7">>

\* '1.9'
Np1_9 == <<"1", ".", "9">>

\* '1.11'
Np1_11 == <<"1", ".", "1", "1">>

\* '1.14'
Np1_14 == <<"1", ".", "1", "4">>

(***************************************************************************)
(* config.py and numpy.py                                                  *)
(***************************************************************************)

\* The Python tags the tool recognizes in a wheel's file name.
PYTHON_TAGS == <<cp27, cp34, cp35, cp36, cp37>>

\* The platform argument of the command line and the platform tag it
\* stands for.
Platforms == {"macosx", "windows32", "windows64", "linux32", "linux64"}

PLATFORM_TAGS ==
    [p \in Platforms |->
        CASE p = "macosx"    -> TagMacosx
          [] p = "windows32" -> TagWin32
          [] p = "windows64" -> TagWinAmd64
          [] p = "linux32"   -> TagLinux32
          [] p = "linux64"   -> TagLinux64]

PlatformTags == {PLATFORM_TAGS[p] : p \in Platforms}

\* The oldest numpy that can be installed for a Python tag on a platform.
\* The table has no entry for cp37 outside macosx.
MinNumpyKeys ==
    ({cp27, cp34, cp35, cp36} \X PlatformTags) \cup {<<cp37, TagMacosx>>}

MIN_NUMPY ==
    [k \in MinNumpyKeys |->
        CASE k[1] = cp27 -> Np1_7
          [] k[1] = cp34 -> Np1_9
          [] k[1] = cp35 -> Np1_9
          [] k[1] = cp36 -> Np1_11
          [] k[1] = cp37 -> Np1_14]

(***************************************************************************)
(* The inputs: the packages of autowheel.yml and what PyPI answers         *)
(***************************************************************************)

\* Two ranges, a custom before_build command, tests configured.
PkgA ==
    [package_name    |-> <<"a">>,
     python_versions |-> << <<V0_10, <<cp27, cp35>>>>,
                            <<V1_0, <<cp27, cp35, cp36>>>> >>,
     before_build    |-> CmdMake,
     test_command    |-> CmdPytest,
     test_requires   |-> ReqMock]

\* Keys and tags out of order, a tag listed twice, nothing else configured.
PkgB ==
    [package_name    |-> <<"b">>,
     python_versions |-> << <<V1_0, <<cp36, cp27, cp36>>>>,
                            <<V0_9, <<cp35>>>> >>,
     test_command    |-> None,
     test_requires   |-> <<>>]

\* Numpy pinned and a before_build command as well.
PkgC ==
    [package_name    |-> <<"c">>,
     python_versions |-> << <<V0_10, <<cp37, cp27>>>>,
                            <<V1_0_1, <<cp27>>>> >>,
     before_build    |-> CmdMake,
     pin_numpy       |-> TRUE,
     test_command    |-> CmdPytest,
     test_requires   |-> None]

PackageConfigs == {PkgA, PkgB, PkgC}

\* dict.get(key, default)
Get(d, key, default) == IF key \in DOMAIN d THEN d[key] ELSE default

\* The versions a release may have; 1.0rc1 is a pre-release.
ReleaseVersions == {V0_9, V0_10, V0_11, V1_0, V1_0rc1, V1_0_1}

Wheel(filename) ==
    [packagetype |-> "bdist_wheel", filename |-> filename,
     url |-> <<"/">> \o filename]

SourceDist(filename) ==
    [packagetype |-> "sdist", filename |-> filename,
     url |-> <<"/">> \o filename]

\* sdist = None
NoSdist == [packagetype |-> "None", filename |-> <<>>, url |-> <<>>]

\* The file lists a release may have on PyPI.
FileLists ==
    { <<>>,
      <<SourceDist(FnSdTgz)>>,
      <<SourceDist(FnSdTgz), Wheel(FnW27mac)>>,
      <<Wheel(FnW27mac), SourceDist(FnSdTgz), Wheel(FnW35mac), Wheel(FnW36mac)>>,
      <<SourceDist(FnSdZip), Wheel(FnW27lin), SourceDist(FnSdTgz)>>,
      <<Wheel(FnW27mac), Wheel(FnW35mac), Wheel(FnW36mac)>>,
      <<Wheel(FnW27mac), SourceDist(FnSdOdd), Wheel(FnWuniWin)>> }

\* What unpacking the downloaded file does: tarfile.open() raises,
\* extractall() raises, or the archive unpacks to no entry, to one entry
\* that is a file, to one directory or to several entries.
ExtractOutcomes ==
    {"ReadError", "ExtractError", "nothing", "file", "one", "several"}

\* What a call of cibuildwheel() may end with: a plain return, SystemExit
\* with code 0, 1 or None, or an exception that is not SystemExit.
BuilderOutcomes ==
    {"return", "exit 0", "exit 1", "exit None", "RuntimeError"}

(***************************************************************************)
(* process(): the computations of one release                              *)
(***************************************************************************)

\* package_versions, line 33
PackageVersions(python_versions) ==
    [i \in 1..Len(python_versions) |-> LooseVersion(python_versions[i][1])]

\* min_package_version, line 34
MinPackageVersion(python_versions) == PyMin(PackageVersions(python_versions))

\* The test of line 50.
OutOfRange(python_versions, release) ==
    VersionLess(LooseVersion(release), MinPackageVersion(python_versions))

\* The exception lines 50-56 raise for a release, "None" when none.
ResolveError(python_versions, release) ==
    LET versions == PackageVersions(python_versions)
        rel      == LooseVersion(release)
        lowest   == MinPackageVersion(python_versions)
        matching == FilterLessEq(versions, rel)
    IN  IF CmpError(rel, lowest) # "None" THEN CmpError(rel, lowest)
        ELSE IF VersionLess(rel, lowest) THEN "None"
        ELSE IF FilterError(versions, rel) # "None" THEN FilterError(versions, rel)
        ELSE MaxError(matching)

\* matching_version, line 56
MatchingVersion(python_versions, release) ==
    PyMax(FilterLessEq(PackageVersions(python_versions), LooseVersion(release)))

\* required_pythons, line 59
RequiredPythons(python_versions, release) ==
    Lookup(python_versions, VersionStr(MatchingVersion(python_versions, release)))

\* The inner loop of lines 74-76 over the tags from the i-th on.
RECURSIVE TagsIn(_, _)
TagsIn(filename, i) ==
    IF i > Len(PYTHON_TAGS) THEN <<>>
    ELSE (IF Contains(PYTHON_TAGS[i], filename) THEN <<PYTHON_TAGS[i]>> ELSE <<>>)
         \o TagsIn(filename, i + 1)

\* A variant of WheelsPythons that counts the wheels of every platform.
RECURSIVE WheelsPythonsAnyPlatform(_, _)
WheelsPythonsAnyPlatform(fileinfos, tag) ==
    IF fileinfos = <<>> THEN <<>>
    ELSE (IF Head(fileinfos).packagetype = "bdist_wheel"
          THEN TagsIn(Head(fileinfos).filename, 1)
          ELSE <<>>)
         \o WheelsPythonsAnyPlatform(Tail(fileinfos), tag)

\* wheels_pythons after the loop of lines 70-78.
RECURSIVE WheelsPythons(_, _)
WheelsPythons(fileinfos, tag) ==
    IF fileinfos = <<>> THEN <<>>
    ELSE (IF /\ Head(fileinfos).packagetype = "bdist_wheel"
             /\ Contains(tag, Head(fileinfos).filename)
          THEN TagsIn(Head(fileinfos).filename, 1)
          ELSE <<>>)
         \o WheelsPythons(Tail(fileinfos), tag)

\* sdist after the loop of lines 70-78: the last record of type sdist.
RECURSIVE SdistFrom(_, _)
SdistFrom(fileinfos, found) ==
    IF fileinfos = <<>> THEN found
    ELSE SdistFrom(Tail(fileinfos),
                   IF Head(fileinfos).packagetype = "sdist"
                   THEN Head(fileinfos) ELSE found)

Sdist(fileinfos) == SdistFrom(fileinfos, NoSdist)

\* missing, line 80
Missing(required, wheels) == Sorted(ToSet(required) \ ToSet(wheels))

\* A variant of AllPresent with the flag the other way round.
AllPresentForced(missing_tags, ignore) == missing_tags = <<>> /\ ignore

\* The test of line 82.
AllPresent(missing_tags, ignore) == missing_tags = <<>> /\ ~ignore

(***************************************************************************)
(* os.environ: a function from the names that are set to their values      *)
(***************************************************************************)

EmptyEnviron == [k \in {} |-> <<>>]

\* The CIBW_ variables the process may be started with.
InheritedEnvirons ==
    {EmptyEnviron,
     [CIBW_BEFORE_BUILD |-> CmdMake]}

Put(e, key, value) ==
    [k \in (DOMAIN e) \cup {key} |-> IF k = key THEN value ELSE e[k]]

\* Lines 115-120.
CibwPlatform(tag) ==
    IF Contains(<<"m", "a", "c">>, tag) THEN <<"m", "a", "c", "o", "s">>
    ELSE IF Contains(<<"l", "i", "n", "u", "x">>, tag)
         THEN <<"l", "i", "n", "u", "x">>
         ELSE <<"w", "i", "n", "d", "o", "w", "s">>

\* Lines 115-128: what the release writes before its loop over the targets.
ReleaseEnviron(e, tag, output_dir, test_command, test_requires) ==
    LET e1 == Put(e, "CIBW_PLATFORM", CibwPlatform(tag))
        e2 == Put(e1, "CIBW_OUTPUT_DIR", output_dir)
        e3 == IF Truthy(test_command)
              THEN Put(e2, "CIBW_TEST_COMMAND", test_command) ELSE e2
        e4 == IF Truthy(test_requires)
              THEN Put(e3, "CIBW_TEST_REQUIRES", test_requires) ELSE e3
    IN  Put(e4, "CIBW_BUILD_VERBOSITY", <<"3">>)

\* A variant of BuildSpec with the two arguments swapped.
BuildSpecSwapped(python_tag, tag) == tag \o <<"-">> \o python_tag

\* "{0}-{1}".format(python_tag, platform_tag), line 132
BuildSpec(python_tag, tag) == python_tag \o <<"-">> \o tag

\* 'pip install numpy=={0}'.format(pinned_version), line 136
PipInstall(pinned_version) ==
    <<"p", "i", "p", " ", "i", "n", "s", "t", "a", "l", "l", " ",
      "n", "u", "m", "p", "y", "=", "=">> \o pinned_version

\* Lines 132-138 when the pin table has the target (or nothing is pinned).
TargetEnviron(e, python_tag, tag, pin_numpy, before_build) ==
    LET e1 == Put(e, "CIBW_BUILD", BuildSpec(python_tag, tag))
    IN  IF pin_numpy
        THEN Put(e1, "CIBW_BEFORE_BUILD", PipInstall(MIN_NUMPY[<<python_tag, tag>>]))
        ELSE IF Truthy(before_build)
             THEN Put(e1, "CIBW_BEFORE_BUILD", before_build)
             ELSE e1

\* A variant of Reraised that swallows every SystemExit.
ReraisedNever(outcome) == FALSE

\* Line 147: whether the SystemExit of the builder is raised again.
Reraised(outcome) == outcome \in {"exit 1", "exit None"}

\* Lines 144-148: the exception the try statement around cibuildwheel() is
\* left with, "None" when none.  The except clause catches SystemExit only.
Propagated(outcome) ==
    IF outcome \in {"return", "exit 0", "exit 1", "exit None"}
    THEN (IF Reraised(outcome) THEN "SystemExit" ELSE "None")
    ELSE outcome

(***************************************************************************)
(* The state                                                               *)
(***************************************************************************)

VARIABLES
    platform_tag,      \* PLATFORM_TAGS[platform] of the command line
    ignore_existing,   \* --ignore-existing
    package,           \* the package of autowheel.yml being processed
    pc,                \* where the program is
    cwd,               \* the working directory of the process
    environ,           \* os.environ
    start_dir,         \* process(): start_dir
    release_version,   \* process(): release_version
    files,             \* process(): pypi_data['releases'][release_version]
    required_pythons,  \* process(): required_pythons
    wheels_pythons,    \* process(): wheels_pythons
    sdist,             \* process(): sdist
    missing,           \* process(): missing
    target,            \* the position of the loop of line 130 in missing
    exc,               \* the exception being propagated, "None" when none
    calls              \* what the current release has called so far

vars ==
    <<platform_tag, ignore_existing, package, pc, cwd, environ, start_dir,
      release_version, files, required_pythons, wheels_pythons, sdist,
      missing, target, exc, calls>>

cli == <<platform_tag, ignore_existing>>

release_locals ==
    <<release_version, files, required_pythons, wheels_pythons, sdist,
      missing, target>>

\* The directory main() is started in, the directory mkdtemp() makes and
\* the one directory the archive unpacks to.
HomeDir == "home"

TmpDir == "tmpdir"

SourceDir == "tmpdir/paths[0]"

NoPackage == [package_name |-> None]

\* A call of the outside world: what was called, with what, and how it ended.
Call(op, arg, result) == [op |-> op, arg |-> arg, result |-> result]

Init ==
    /\ platform_tag \in PlatformTags
    /\ ignore_existing \in BOOLEAN
    /\ package = NoPackage
    /\ pc = "main"
    /\ cwd = HomeDir
    /\ environ \in InheritedEnvirons
    /\ start_dir = "None"
    /\ release_version = None
    /\ files = <<>>
    /\ required_pythons = <<>>
    /\ wheels_pythons = <<>>
    /\ sdist = NoSdist
    /\ missing = <<>>
    /\ target = 0
    /\ exc = "None"
    /\ calls = <<>>

(***************************************************************************)
(* main()                                                                  *)
(***************************************************************************)

\* Lines 166-175 and 23-41: main() takes the next package of autowheel.yml
\* and calls process(), which asks PyPI for the package's releases and
\* remembers the directory it starts from.  A failing request propagates.
ProcessCall ==
    /\ pc = "main"
    /\ \E p \in PackageConfigs, ok \in BOOLEAN :
          /\ package' = p
          /\ IF MinError(PackageVersions(p.python_versions)) # "None"
             THEN /\ start_dir' = start_dir
                  /\ pc' = "aborted"
                  /\ exc' = MinError(PackageVersions(p.python_versions))
             ELSE IF ok
             THEN /\ start_dir' = cwd
                  /\ pc' = "releases"
                  /\ exc' = exc
             ELSE /\ start_dir' = start_dir
                  /\ pc' = "aborted"
                  /\ exc' = "ConnectionError"
    /\ UNCHANGED <<cli, cwd, environ, release_locals, calls>>

\* Line 166: autowheel.yml has no further package and main() returns.
MainReturn ==
    /\ pc = "main"
    /\ pc' = "done"
    /\ UNCHANGED <<cli, package, cwd, environ, start_dir, release_locals,
                   exc, calls>>

(***************************************************************************)
(* process(): the loop over the releases                                   *)
(***************************************************************************)

\* Lines 46-48: the loop takes the next release PyPI lists.  What the
\* previous release left in the variables of the loop body is dead.
NextRelease ==
    /\ pc = "releases"
    /\ \E v \in ReleaseVersions, fl \in FileLists :
          /\ release_version' = v
          /\ files' = fl
    /\ required_pythons' = <<>>
    /\ wheels_pythons' = <<>>
    /\ sdist' = NoSdist
    /\ missing' = <<>>
    /\ target' = 0
    /\ calls' = <<>>
    /\ pc' = "range"
    /\ UNCHANGED <<cli, package, cwd, environ, start_dir, exc>>

\* Line 46: what PyPI answered has no 'releases'; the subscript raises when
\* the loop is entered, outside the try block, and process() and main() end
\* with the exception.
ReleasesMissing ==
    /\ pc = "releases"
    /\ release_version = None
    /\ exc' = "KeyError"
    /\ pc' = "aborted"
    /\ UNCHANGED <<cli, package, cwd, environ, start_dir, release_locals,
                   calls>>

\* Line 46: PyPI lists no further release and process() returns; its local
\* variables are gone.
ProcessReturn ==
    /\ pc = "releases"
    /\ pc' = "main"
    /\ start_dir' = "None"
    /\ release_version' = None
    /\ files' = <<>>
    /\ required_pythons' = <<>>
    /\ wheels_pythons' = <<>>
    /\ sdist' = NoSdist
    /\ missing' = <<>>
    /\ target' = 0
    /\ calls' = <<>>
    /\ UNCHANGED <<cli, package, cwd, environ, exc>>

\* Lines 50-52: a release older than every configured version is skipped.
SkipOutOfRange ==
    /\ pc = "range"
    /\ OutOfRange(package.python_versions, release_version)
    /\ pc' = "releases"
    /\ UNCHANGED <<cli, package, cwd, environ, start_dir, release_locals,
                   exc, calls>>

\* Lines 50-56: a comparison of the release version with a configured
\* version raises; the statement is outside the try block, so process()
\* and main() end with the exception and the directory is not changed.
CompareRaises ==
    /\ pc = "range"
    /\ ResolveError(package.python_versions, release_version) # "None"
    /\ exc' = ResolveError(package.python_versions, release_version)
    /\ pc' = "aborted"
    /\ UNCHANGED <<cli, package, cwd, environ, start_dir, release_locals,
                   calls>>

\* Lines 50-59: the Python tags the configuration asks for.
Resolve ==
    /\ pc = "range"
    /\ ResolveError(package.python_versions, release_version) = "None"
    /\ ~OutOfRange(package.python_versions, release_version)
    /\ required_pythons' = RequiredPythons(package.python_versions, release_version)
    /\ pc' = "scan"
    /\ UNCHANGED <<cli, package, cwd, environ, start_dir, release_version,
                   files, wheels_pythons, sdist, missing, target, exc,
                   calls>>

\* Lines 64-84: the wheels PyPI has for the platform, the source
\* distribution and the missing tags; nothing to do when none is missing.
SkipAllPresent ==
    /\ pc = "scan"
    /\ wheels_pythons' = WheelsPythons(files, platform_tag)
    /\ sdist' = Sdist(files)
    /\ missing' = Missing(required_pythons, wheels_pythons')
    /\ AllPresent(missing', ignore_existing)
    /\ pc' = "releases"
    /\ UNCHANGED <<cli, package, cwd, environ, start_dir, release_version,
                   files, required_pythons, target, exc, calls>>

\* Lines 64-92: as above, with something to build: the release gets a
\* temporary directory and the process moves into it.
EnterBuild ==
    /\ pc = "scan"
    /\ wheels_pythons' = WheelsPythons(files, platform_tag)
    /\ sdist' = Sdist(files)
    /\ missing' = Missing(required_pythons, wheels_pythons')
    /\ ~AllPresent(missing', ignore_existing)
    /\ calls' = Append(calls, Call("mkdtemp", <<>>, "ok"))
    /\ cwd' = TmpDir
    /\ pc' = "fetch"
    /\ UNCHANGED <<cli, package, environ, start_dir, release_version, files,
                   required_pythons, target, exc>>

(***************************************************************************)
(* process(): the try block of a release                                   *)
(***************************************************************************)

\* Lines 94-97: the source distribution is downloaded.  With no source
\* distribution sdist is None and sdist["url"] raises.
Fetch ==
    /\ pc = "fetch"
    /\ IF sdist = NoSdist
       THEN /\ exc' = "TypeError"
            /\ pc' = "finally"
            /\ calls' = calls
       ELSE \E ok \in BOOLEAN :
               /\ calls' = Append(calls, Call("requests.get", sdist.url,
                                               IF ok THEN "ok" ELSE "ConnectionError"))
               /\ exc' = IF ok THEN exc ELSE "ConnectionError"
               /\ pc' = IF ok THEN "extract" ELSE "finally"
    /\ UNCHANGED <<cli, package, cwd, environ, start_dir, release_locals>>

\* Lines 99-109: the archive is unpacked and the process moves into the one
\* directory it holds.  The archive may be unreadable or fail to unpack, and
\* may unpack to no entry, to several, or to one that is not a directory, in
\* which case os.chdir() raises and the process stays in the temporary
\* directory.
Extract ==
    /\ pc = "extract"
    /\ \E result \in ExtractOutcomes :
          /\ calls' = Append(calls, Call("tarfile.open", sdist.filename, result))
          /\ exc' = CASE result = "ReadError"    -> "ReadError"
                      [] result = "ExtractError" -> "ExtractError"
                      [] result = "nothing"      -> "IndexError"
                      [] result = "several"      -> "ValueError"
                      [] result = "file"         -> "NotADirectoryError"
                      [] result = "one"          -> exc
          /\ pc' = IF result = "one" THEN "environ" ELSE "finally"
          /\ cwd' = IF result = "one" THEN SourceDir ELSE cwd
    /\ UNCHANGED <<cli, package, environ, start_dir, release_locals>>

\* Lines 113-128: the settings of the release are written to os.environ.
SetEnviron ==
    /\ pc = "environ"
    /\ environ' = ReleaseEnviron(environ, platform_tag, OutDir,
                                 package.test_command, package.test_requires)
    /\ target' = 1
    /\ pc' = "loop"
    /\ UNCHANGED <<cli, package, cwd, start_dir, release_version, files,
                   required_pythons, wheels_pythons, sdist, missing, exc,
                   calls>>

\* Lines 130-142: the loop takes the next missing tag and writes the
\* settings of the target.  A pinned numpy the table does not have raises,
\* after CIBW_BUILD has been written.
PrepareTarget ==
    /\ pc = "loop"
    /\ target <= Len(missing)
    /\ LET python_tag   == missing[target]
           pin_numpy    == Get(package, "pin_numpy", FALSE)
           before_build == Get(package, "before_build", None)
       IN  IF pin_numpy /\ <<python_tag, platform_tag>> \notin DOMAIN MIN_NUMPY
           THEN /\ environ' = Put(environ, "CIBW_BUILD",
                                  BuildSpec(python_tag, platform_tag))
                /\ exc' = "KeyError"
                /\ pc' = "finally"
           ELSE /\ environ' = TargetEnviron(environ, python_tag, platform_tag,
                                            pin_numpy, before_build)
                /\ exc' = exc
                /\ pc' = "call"
    /\ UNCHANGED <<cli, package, cwd, start_dir, release_locals, calls>>

\* Lines 144-148: cibuildwheel() runs with os.environ as it is.  A
\* SystemExit with a code other than 0 is raised again, and any other
\* exception is not caught.
Cibuildwheel ==
    /\ pc = "call"
    /\ \E outcome \in BuilderOutcomes :
          /\ calls' = Append(calls, Call("cibuildwheel", environ["CIBW_BUILD"], outcome))
          /\ IF Propagated(outcome) # "None"
             THEN /\ exc' = Propagated(outcome)
                  /\ pc' = "finally"
                  /\ target' = target
             ELSE /\ exc' = exc
                  /\ pc' = "loop"
                  /\ target' = target + 1
    /\ UNCHANGED <<cli, package, cwd, environ, start_dir, release_version,
                   files, required_pythons, wheels_pythons, sdist, missing>>

\* Line 130: no missing tag is left.
LoopExit ==
    /\ pc = "loop"
    /\ target > Len(missing)
    /\ pc' = "finally"
    /\ UNCHANGED <<cli, package, cwd, environ, start_dir, release_locals,
                   exc, calls>>

\* A variant of Finally that goes back only when nothing was raised.
FinallyOnSuccess ==
    /\ pc = "finally"
    /\ cwd' = IF exc = "None" THEN start_dir ELSE cwd
    /\ pc' = IF exc = "None" THEN "releases" ELSE "aborted"
    /\ UNCHANGED <<cli, package, environ, start_dir, release_locals, exc,
                   calls>>

\* Lines 150-152: the process goes back to where process() started; an
\* exception then propagates out of process() and main().
Finally ==
    /\ pc = "finally"
    /\ cwd' = start_dir
    /\ pc' = IF exc = "None" THEN "releases" ELSE "aborted"
    /\ UNCHANGED <<cli, package, environ, start_dir, release_locals, exc,
                   calls>>

Next ==
    \/ ProcessCall
    \/ MainReturn
    \/ NextRelease
    \/ ReleasesMissing
    \/ ProcessReturn
    \/ SkipOutOfRange
    \/ CompareRaises
    \/ Resolve
    \/ SkipAllPresent
    \/ EnterBuild
    \/ Fetch
    \/ Extract
    \/ SetEnviron
    \/ PrepareTarget
    \/ Cibuildwheel
    \/ LoopExit
    \/ Finally

Spec == Init /\ [][Next]_vars

(***************************************************************************)
(* Where the program is, relative to the current release                   *)
(***************************************************************************)

\* The loop has taken a release of a package.
InRelease == release_version # None

\* The comparisons of lines 50-56 are defined for the release: its version
\* compares with the configured ones without raising.
Comparable ==
    /\ InRelease
    /\ ResolveError(package.python_versions, release_version) = "None"

\* The release is at or after the oldest configured version.
InRange ==
    /\ Comparable
    /\ ~OutOfRange(package.python_versions, release_version)

\* required_pythons is that of the release.
Resolved == pc # "range" /\ InRange

\* wheels_pythons, sdist and missing are those of the release.
Scanned == Resolved /\ pc # "scan"

\* The try block of lines 89-152 is running.
InBlock == pc \in {"fetch", "extract", "environ", "loop", "call", "finally"}

\* The values of CIBW_BUILD the release has called cibuildwheel() with.
Builds == SelectSeq(calls, LAMBDA c : c.op = "cibuildwheel")

BuildArgs == [i \in 1..Len(Builds) |-> Builds[i].arg]

\* The positions of the greatest configured versions not after the release.
FloorKeys(python_versions, release) ==
    LET rel == LooseVersion(release)
        key == [i \in 1..Len(python_versions) |->
                   LooseVersion(python_versions[i][1])]
    IN  {i \in 1..Len(python_versions) :
            /\ VersionLessEq(key[i], rel)
            /\ \A j \in 1..Len(python_versions) :
                  VersionLessEq(key[j], rel) => VersionLessEq(key[j], key[i])}

\* Line 50 finds the release at or after the oldest configured version.
AtOrAfterOldest ==
    /\ InRelease
    /\ VersionCmp(LooseVersion(release_version),
                  MinPackageVersion(package.python_versions)) \in {"eq", "gt"}

\* The required tags are the list of the greatest configured version that is
\* not after the release, and of the release's own version when configured.
RequiredIsFloorEntry ==
    LET floor == FloorKeys(package.python_versions, release_version)
    IN  /\ floor # {}
        /\ \A i \in floor :
              required_pythons = package.python_versions[i][2]
        /\ \A i \in 1..Len(package.python_versions) :
              package.python_versions[i][1] = release_version
              => required_pythons = package.python_versions[i][2]

(***************************************************************************)
(* C1.  For every release at or after the oldest configured version, the   *)
(* required tags process() goes on with are the list stored under the      *)
(* greatest configured version that is not after the release, versions     *)
(* being compared component by component (0.9 < 0.10 < 1.0, which is not   *)
(* the order of the strings): under the release's own version when it is   *)
(* configured, and with nothing of the earlier versions' lists added.      *)
(* It fails for release 1.0rc1 with the versions 0.10 and 1.0.1            *)
(* configured: line 50 finds the release in range, line 56 compares 'rc'   *)
(* with 1 and raises TypeError, and process() has no list at all.          *)
(***************************************************************************)
C1_RequiredIsFloorEntry ==
    (pc # "range" /\ AtOrAfterOldest) => RequiredIsFloorEntry

\* What holds of C1: a release whose version compares with every configured
\* one is resolved to the floor entry (1.0rc1 to 1.0 when 0.10 and 1.0 are
\* configured), and a release in range is left unresolved only by a
\* comparison that raises.
FloorEntryWhenComparable ==
    /\ VersionLess(LooseVersion(V0_9), LooseVersion(V0_10))
    /\ VersionLess(LooseVersion(V0_10), LooseVersion(V1_0))
    /\ VersionLess(LooseVersion(V1_0), LooseVersion(V1_0rc1))
    /\ StrLess(V0_10, V0_9)
    /\ Resolved => RequiredIsFloorEntry
    /\ (pc # "range" /\ AtOrAfterOldest /\ ~Resolved) =>
          /\ pc = "aborted"
          /\ exc = "TypeError"
          /\ calls = <<>>

\* The tags PyPI has a wheel of the platform for, by the file names.
Published ==
    {t \in ToSet(PYTHON_TAGS) :
        \E i \in 1..Len(files) :
            /\ files[i].packagetype = "bdist_wheel"
            /\ Contains(platform_tag, files[i].filename)
            /\ Contains(t, files[i].filename)}

(***************************************************************************)
(* C2.  missing is sorted(required - published), where published holds    *)
(* every tag of PYTHON_TAGS that occurs in the file name of a bdist_wheel  *)
(* record whose file name contains the platform tag; it is empty exactly   *)
(* when published contains required; wheels of other platforms and source *)
(* distributions add nothing to published.                                 *)
(***************************************************************************)
C2_MissingIsSortedDifference ==
    Scanned =>
        /\ ToSet(missing) = ToSet(required_pythons) \ Published
        /\ \A i, j \in 1..Len(missing) : i < j => StrLess(missing[i], missing[j])
        /\ (missing = <<>>) <=> (ToSet(required_pythons) \subseteq Published)
        /\ ToSet(wheels_pythons) = Published

\* A release with a wheel of the platform, a wheel of another platform or a
\* source distribution named like a wheel, and two tags missing.
C2_Witness ==
    /\ Scanned
    /\ Len(missing) >= 2
    /\ Published # {}
    /\ \E i \in 1..Len(files) :
          /\ \E t \in ToSet(missing) : Contains(t, files[i].filename)
          /\ \/ files[i].packagetype = "sdist"
             \/ ~Contains(platform_tag, files[i].filename)

\* How many source distributions the release has.
SdistCount == Cardinality({i \in 1..Len(files) : files[i].packagetype = "sdist"})

\* The downloads of the release.
Downloads == SelectSeq(calls, LAMBDA c : c.op = "requests.get")

(***************************************************************************)
(* C3.  A release in range whose file list holds no source distribution,  *)
(* or more than one, raises an error that ends the run: nothing is         *)
(* downloaded for it and the loop does not go on to the next release.      *)
(***************************************************************************)
C3_ExactlyOneSdist ==
    (Scanned /\ SdistCount # 1) =>
        /\ pc \in {"fetch", "finally", "aborted"}
        /\ pc # "fetch" => exc # "None"
        /\ Downloads = <<>>

(***************************************************************************)
(* C4.  With --ignore-existing, a release in range that has every required *)
(* wheel on PyPI is still built: when its try block has completed,         *)
(* cibuildwheel() has been called once for each required tag.              *)
(***************************************************************************)
C4_ForceRebuildsAllRequired ==
    ( /\ Scanned
      /\ ignore_existing
      /\ ToSet(required_pythons) \subseteq Published
      /\ pc = "releases"
      /\ exc = "None" ) =>
        /\ Len(BuildArgs) = Cardinality(ToSet(required_pythons))
        /\ ToSet(BuildArgs) =
              {t \o <<"-">> \o platform_tag : t \in ToSet(required_pythons)}

\* A build of the release has ended with SystemExit(1).
BuilderFailed == \E i \in 1..Len(Builds) : Builds[i].result = "exit 1"

\* The step is a call of cibuildwheel() that ends with result.
EndedWith(result) ==
    /\ pc = "call"
    /\ calls' = Append(calls, Call("cibuildwheel", environ["CIBW_BUILD"], result))

(***************************************************************************)
(* C5.  Once cibuildwheel() has ended with SystemExit(1) the run is over:  *)
(* the exception is raised again, no other call is made for the rest of    *)
(* the release, for a later release or for a later package; after          *)
(* SystemExit(0) the loop goes on with the next missing tag.               *)
(***************************************************************************)
C5_FailFast ==
    [][ /\ EndedWith("exit 1") => (pc' = "finally" /\ exc' = "SystemExit")
        /\ BuilderFailed =>
              /\ calls' = calls
              /\ exc' = "SystemExit"
              /\ pc' \in {"finally", "aborted"}
        /\ EndedWith("exit 0") =>
              (pc' = "loop" /\ target' = target + 1 /\ exc' = "None")
      ]_vars

\* The run has ended with the builder's failure on the second of three
\* missing tags, after a first build that ended with SystemExit(0).
C5_Witness ==
    /\ pc = "aborted"
    /\ exc = "SystemExit"
    /\ Len(missing) = 3
    /\ Len(Builds) = 2
    /\ Builds[1].result = "exit 0"
    /\ Builds[2].result = "exit 1"

\* What the current package and target give each CIBW_ variable.
ExpectedBeforeBuild ==
    IF Get(package, "pin_numpy", FALSE)
    THEN [CIBW_BEFORE_BUILD |->
            <<"p", "i", "p", " ", "i", "n", "s", "t", "a", "l", "l", " ",
              "n", "u", "m", "p", "y", "=", "=">>
            \o MIN_NUMPY[<<missing[target], platform_tag>>]]
    ELSE IF Truthy(Get(package, "before_build", None))
         THEN [CIBW_BEFORE_BUILD |-> package.before_build]
         ELSE EmptyEnviron

ExpectedTests ==
    (IF Truthy(package.test_command)
     THEN [CIBW_TEST_COMMAND |-> package.test_command] ELSE EmptyEnviron)
    @@
    (IF Truthy(package.test_requires)
     THEN [CIBW_TEST_REQUIRES |-> package.test_requires] ELSE EmptyEnviron)

ExpectedEnviron ==
    [CIBW_PLATFORM        |-> CibwPlatform(platform_tag),
     CIBW_BUILD           |-> missing[target] \o <<"-">> \o platform_tag,
     CIBW_OUTPUT_DIR      |-> OutDir,
     CIBW_BUILD_VERBOSITY |-> <<"3">>]
    @@ ExpectedBeforeBuild @@ ExpectedTests

(***************************************************************************)
(* C6.  Whenever cibuildwheel() is called, every CIBW_ variable of         *)
(* os.environ has the value the current package and target give it, and a  *)
(* variable the current package configures nothing for is not set.         *)
(***************************************************************************)
C6_EnvironOfCurrentTarget ==
    pc = "call" => environ = ExpectedEnviron

(***************************************************************************)
(* C7.  Outside the try block of a release the working directory is the    *)
(* one process() started in, however the block was left.                   *)
(***************************************************************************)
C7_WorkingDirectoryRestored ==
    /\ ~InBlock =>
          /\ cwd = HomeDir
          /\ start_dir # "None" => cwd = start_dir
    /\ InBlock => start_dir = HomeDir

\* The block was left by the builder's failure, from inside the unpacked
\* source directory.
C7_Witness ==
    /\ pc = "aborted"
    /\ exc = "SystemExit"
    /\ \E i \in 1..Len(calls) :
          calls[i].op = "tarfile.open" /\ calls[i].result = "one"
    /\ cwd = start_dir

(***************************************************************************)
(* C8.  A release older than every configured version, with or without     *)
(* --ignore-existing, and a release with nothing missing when              *)
(* --ignore-existing is not given, calls nothing (no temporary directory,  *)
(* no download, no unpacking, no build), raises nothing, and the loop is   *)
(* back at its head for the next release.                                  *)
(***************************************************************************)
C8_ScopeSkip ==
    /\ ( /\ InRelease
         /\ OutOfRange(package.python_versions, release_version)
         /\ pc # "range" ) =>
            (pc = "releases" /\ calls = <<>> /\ exc = "None" /\ cwd = HomeDir)
    /\ (Scanned /\ missing = <<>> /\ ~ignore_existing) =>
            (pc = "releases" /\ calls = <<>> /\ exc = "None" /\ cwd = HomeDir)

\* With the flag not given, a release with every required wheel on PyPI has
\* been skipped.
C8_Witness ==
    /\ pc = "releases"
    /\ Scanned
    /\ ~ignore_existing
    /\ required_pythons # <<>>
    /\ missing = <<>>
    /\ calls = <<>>

\* The build target specifiers of the missing tags, in order.
MissingSpecs == [i \in 1..Len(missing) |-> missing[i] \o <<"-">> \o platform_tag]

(***************************************************************************)
(* C9.  Within a release cibuildwheel() is called for the missing tags in  *)
(* ascending order, one call per tag and for no other tag, each with       *)
(* CIBW_BUILD set to "<tag>-<platform tag>"; when the block completes     *)
(* every missing tag has been built.                                       *)
(***************************************************************************)
C9_OneBuildPerMissingTagInOrder ==
    /\ ~Scanned => Builds = <<>>
    /\ Scanned =>
          /\ Len(BuildArgs) <= Len(missing)
          /\ BuildArgs = SubSeq(MissingSpecs, 1, Len(BuildArgs))
          /\ \A i, j \in 1..Len(missing) : i < j => StrLess(missing[i], missing[j])
          /\ pc = "call" =>
                /\ Len(BuildArgs) < Len(missing)
                /\ environ["CIBW_BUILD"] = MissingSpecs[Len(BuildArgs) + 1]
          /\ (pc = "releases" /\ exc = "None" /\ calls # <<>>) =>
                BuildArgs = MissingSpecs

\* The block of a release with three missing tags has completed.
C9_Witness ==
    /\ pc = "releases"
    /\ exc = "None"
    /\ Len(missing) = 3
    /\ BuildArgs = MissingSpecs

(***************************************************************************)
(* C10.  Whenever cibuildwheel() is called, CIBW_BEFORE_BUILD is the       *)
(* install of the pinned numpy of the target when pin_numpy is set (even   *)
(* with a before_build command configured), otherwise the configured       *)
(* before_build command, otherwise it is not set.                          *)
(***************************************************************************)
C10_BeforeBuildResolution ==
    pc = "call" =>
        IF Get(package, "pin_numpy", FALSE)
        THEN /\ "CIBW_BEFORE_BUILD" \in DOMAIN environ
             /\ environ["CIBW_BEFORE_BUILD"] =
                   <<"p", "i", "p", " ", "i", "n", "s", "t", "a", "l", "l", " ",
                     "n", "u", "m", "p", "y", "=", "=">>
                   \o MIN_NUMPY[<<missing[target], platform_tag>>]
        ELSE IF Truthy(Get(package, "before_build", None))
             THEN /\ "CIBW_BEFORE_BUILD" \in DOMAIN environ
                  /\ environ["CIBW_BEFORE_BUILD"] = package.before_build
             ELSE "CIBW_BEFORE_BUILD" \notin DOMAIN environ

=============================================================================
